---- MODULE Spec2Model ----
(***************************************************************************)
(* Model of the dialogue-to-script tool in src/src/App.tsx: the dialogue   *)
(* parser (parseDialogue), the script generator (generateDialogues) and    *)
(* the click handlers of the App component that connect them.              *)
(*                                                                         *)
(* Strings are TLA+ strings; a character is a string of length one.        *)
(***************************************************************************)
EXTENDS Integers, Sequences, FiniteSets, TLC

VARIABLES
    dialogues,      \* useState<Dialog[]>            (App.tsx:61)
    finalScript,    \* useState<string>              (App.tsx:62)
    rawScript,      \* useState<string>              (App.tsx:63)
    scriptData,     \* useState<ScriptData>          (App.tsx:64)
    usersFields,    \* useFieldArray "users" fields  (App.tsx:78)
    formDialogues,  \* form value "dialogues"        (App.tsx:70, 92)
    console,        \* messages passed to console.error, in call order
    lastOp          \* the handler that ran last

vars == <<dialogues, finalScript, rawScript, scriptData, usersFields,
          formDialogues, console, lastOp>>

----------------------------------------------------------------------------
(* Characters and strings *)

UpperCase == "ABCDEFGHIJKLMNOPQRSTUVWXYZ"
LowerCase == "abcdefghijklmnopqrstuvwxyz"

Char(s, i) == SubSeq(s, i, i)

UpperChars == {Char(UpperCase, i) : i \in 1..Len(UpperCase)}
LowerChars == {Char(LowerCase, i) : i \in 1..Len(LowerCase)}

AlphaChars == UpperChars \cup LowerChars

\* the regex class [A-Za-z]
IsAlpha(c) == c \in AlphaChars

\* characters String.prototype.trim removes (those a model string can hold)
WhiteSpace == {" ", "\t", "\n", "\r", "\f"}

\* characters the regex "." does not match (no s flag)
LineTerminators == {"\n", "\r"}

LowerOf ==
    [c \in UpperChars |->
        Char(LowerCase, CHOOSE i \in 1..Len(UpperCase) : Char(UpperCase, i) = c)]

toLowerChar(c) == IF c \in UpperChars THEN LowerOf[c] ELSE c

RECURSIVE toLowerCase(_)
toLowerCase(s) ==
    IF s = "" THEN "" ELSE toLowerChar(Char(s, 1)) \o toLowerCase(Tail(s))

trim(s) ==
    LET keep == {i \in 1..Len(s) : Char(s, i) \notin WhiteSpace}
    IN  IF keep = {} THEN ""
        ELSE SubSeq(s, CHOOSE i \in keep : \A j \in keep : i <= j,
                       CHOOSE i \in keep : \A j \in keep : j <= i)

\* dialogueString.split('\n')
RECURSIVE split(_)
split(s) ==
    LET nl == {i \in 1..Len(s) : Char(s, i) = "\n"}
    IN  IF nl = {} THEN <<s>>
        ELSE LET i == CHOOSE i \in nl : \A j \in nl : i <= j
             IN  <<SubSeq(s, 1, i - 1)>> \o split(SubSeq(s, i + 1, Len(s)))

\* end of the greedy match of [A-Za-z]+ that starts at position i of s
RECURSIVE alphaEnd(_, _)
alphaEnd(s, i) ==
    IF i < Len(s) /\ IsAlpha(Char(s, i + 1)) THEN alphaEnd(s, i + 1) ELSE i

\* the match counting blank-separated words instead of alphabetic runs
RECURSIVE matchCount_words(_, _)
matchCount_words(s, pos) ==
    IF pos > Len(s) THEN 0
    ELSE IF Char(s, pos) \notin WhiteSpace
            /\ (pos = 1 \/ Char(s, pos - 1) \in WhiteSpace)
         THEN 1 + matchCount_words(s, pos + 1)
         ELSE matchCount_words(s, pos + 1)

\* trimmedLine.match(/[A-Za-z]+/g): the number of matches found scanning
\* from position pos, each match greedy, the next search starting after it
RECURSIVE matchCount(_, _)
matchCount(s, pos) ==
    IF pos > Len(s) THEN 0
    ELSE IF IsAlpha(Char(s, pos))
         THEN 1 + matchCount(s, alphaEnd(s, pos) + 1)
         ELSE matchCount(s, pos + 1)

characterMultiplier == 4

\* getSpanFromLine counting the alphabetic runs of the content only
getSpanFromLine_contentOnly(line) ==
    LET colon == {i \in 1..Len(line) : Char(line, i) = ":"}
        from  == IF colon = {} THEN 1
                 ELSE 1 + CHOOSE i \in colon : \A j \in colon : i <= j
    IN  matchCount(trim(SubSeq(line, from, Len(line))), 1) * characterMultiplier

getSpanFromLine(line) ==
    LET trimmedLine == trim(line)
        occurences  == matchCount(trimmedLine, 1)
    IN  IF occurences > 0 THEN occurences * characterMultiplier ELSE 0

\* line.match(/^([A-Za-z]+): (.*)$/): the length of group 1, 0 when the
\* line does not match
speakerLen(line) ==
    IF line = "" \/ ~IsAlpha(Char(line, 1)) THEN 0
    ELSE LET k == alphaEnd(line, 1)
         IN  IF /\ k + 2 <= Len(line)
                /\ Char(line, k + 1) = ":"
                /\ Char(line, k + 2) = " "
                /\ \A j \in (k + 3)..Len(line) : Char(line, j) \notin LineTerminators
             THEN k ELSE 0

lineMatches(line) == speakerLen(line) > 0
matchSpeaker(line) == SubSeq(line, 1, speakerLen(line))
matchContent(line) == SubSeq(line, speakerLen(line) + 3, Len(line))

\* Array.prototype.find over the roster: the index of the first entry
\* satisfying the predicate from position i on, 0 when there is none
RECURSIVE findPrefix(_, _, _)
findPrefix(users, key, i) ==
    IF i > Len(users) THEN 0
    ELSE IF toLowerCase(users[i].scriptPrefix) = key THEN i
    ELSE findPrefix(users, key, i + 1)

RECURSIVE findName(_, _, _)
findName(users, username, i) ==
    IF i > Len(users) THEN 0
    ELSE IF users[i].name = username THEN i
    ELSE findName(users, username, i + 1)

\* speaker lookup comparing the prefix without lower-casing it
findSpeaker_caseSensitive(users, key) ==
    LET hit == {i \in 1..Len(users) : users[i].scriptPrefix = key}
    IN  IF hit = {} THEN 0 ELSE CHOOSE i \in hit : \A j \in hit : i <= j

findSpeaker(users, key) == findPrefix(users, key, 1)

\* a continuation line appended before the content
appendContinuation_prepend(ds, line) ==
    [ds EXCEPT ![Len(ds)].content = line \o "\n" \o @]

\* dialogues[dialogues.length - 1].content += '\n' + line
appendContinuation(ds, line) ==
    [ds EXCEPT ![Len(ds)].content = @ \o "\n" \o line]

\* the orphan diagnostic left out for a blank line
reportInvalidLine_skipBlank(acc, line) ==
    IF trim(line) = "" THEN acc
    ELSE [acc EXCEPT !.console = Append(@, "Invalid dialogue line: " \o line)]

\* console.error(`Invalid dialogue line: ${line}`)
reportInvalidLine(acc, line) ==
    [acc EXCEPT !.console = Append(@, "Invalid dialogue line: " \o line)]

\* the body of the for loop of parseDialogue for one line; acc holds the
\* local array "dialogues" and the console.error calls made so far
parseLine(line, users, acc) ==
    IF lineMatches(line)
    THEN LET speaker == matchSpeaker(line)
             content == matchContent(line)
             span    == getSpanFromLine(line)
             caseInsensitiveSpeaker == toLowerCase(speaker)
             user    == findSpeaker(users, caseInsensitiveSpeaker)
         IN  IF user # 0
             THEN [acc EXCEPT !.dialogues =
                      Append(@, [user |-> users[user], span |-> span,
                                 content |-> content])]
             ELSE [acc EXCEPT !.console =
                      Append(@, "Unknown speaker: " \o caseInsensitiveSpeaker)]
    ELSE IF Len(acc.dialogues) > 0
         THEN [acc EXCEPT !.dialogues = appendContinuation(@, line)]
         ELSE reportInvalidLine(acc, line)

RECURSIVE parseLoop(_, _, _, _)
parseLoop(dialogueLines, i, users, acc) ==
    IF i > Len(dialogueLines) THEN acc
    ELSE parseLoop(dialogueLines, i + 1, users,
                   parseLine(dialogueLines[i], users, acc))

\* parseDialogue: the returned array and the diagnostics it logged
parseDialogue(dialogueString, users) ==
    parseLoop(split(dialogueString), 1, users,
              [dialogues |-> <<>>, console |-> <<>>])

----------------------------------------------------------------------------
(* Script generation *)

getScriptIncrementer(sd) ==
    "scoreboard players add @s " \o sd.name \o " "
        \o ToString(sd.initialCounter) \o "\n"

getSingleDialog(sd, incrementer, dialog) ==
    LET contentPrefix == dialog.user.contentPrefix
    IN  "execute if score @s " \o sd.name \o " matches "
            \o ToString(incrementer) \o " run tellraw @a [" \o contentPrefix
            \o ", {\"text\":\"" \o dialog.content
            \o "\", \"italic\": true, \"color\":\"gray\", \"bold\": \"false\"}]\n"

\* the closing statement gated on one value instead of a range
getScriptFinalStatement_exact(sd, incrementer) ==
    "execute if score @s " \o sd.name \o " matches " \o ToString(incrementer)
        \o " run scoreboard players set @s " \o sd.name \o " -1\n"

getScriptFinalStatement(sd, incrementer) ==
    "execute if score @s " \o sd.name \o " matches " \o ToString(incrementer)
        \o ".. run scoreboard players set @s " \o sd.name \o " -1\n"

\* the loop advancing the threshold before it emits the statement
RECURSIVE generateLoop_advanceFirst(_, _, _, _, _)
generateLoop_advanceFirst(sd, ds, i, realScriptContent, conversationSpan) ==
    IF i > Len(ds)
    THEN [realScriptContent |-> realScriptContent,
          conversationSpan  |-> conversationSpan]
    ELSE generateLoop_advanceFirst(sd, ds, i + 1,
             realScriptContent
                 \o getSingleDialog(sd, conversationSpan + ds[i].span, ds[i]),
             conversationSpan + ds[i].span)

\* the for loop of generateDialogues from index i on (i is 1-based here)
RECURSIVE generateLoop(_, _, _, _, _)
generateLoop(sd, ds, i, realScriptContent, conversationSpan) ==
    IF i > Len(ds)
    THEN [realScriptContent |-> realScriptContent,
          conversationSpan  |-> conversationSpan]
    ELSE generateLoop(sd, ds, i + 1,
             realScriptContent \o getSingleDialog(sd, conversationSpan, ds[i]),
             conversationSpan + ds[i].span)

\* the string generateDialogues passes to setFinalScript
wholeScriptContent(sd, ds) ==
    LET initialScriptContent == getScriptIncrementer(sd)
        loop == generateLoop(sd, ds, 1, "", sd.initialSpan)
        endingScriptContent ==
            getScriptFinalStatement(sd, loop.conversationSpan)
    IN  initialScriptContent \o loop.realScriptContent \o endingScriptContent

----------------------------------------------------------------------------
(* Handlers of the App component *)

Op(name, arg) == [op |-> name, arg |-> arg]

\* <Textarea onChange={(e) => setRawScript(e.target.value)} />
setRawScript(value) ==
    /\ rawScript' = value
    /\ lastOp' = Op("setRawScript", "")
    /\ UNCHANGED <<dialogues, finalScript, scriptData, usersFields,
                   formDialogues, console>>

\* "Import dialogues": the parse result goes to the form value "dialogues"
parseDialogueOnClick ==
    LET parsedDialogues == parseDialogue(rawScript, usersFields)
    IN  /\ formDialogues' = parsedDialogues.dialogues
        /\ console' = console \o parsedDialogues.console
        /\ lastOp' = Op("parse", "")
        /\ UNCHANGED <<dialogues, finalScript, rawScript, scriptData,
                       usersFields>>

\* "Import dialogues" of the second listing: setDialogues(parsedDialogues)
parseDialogueOnClick2 ==
    LET parsedDialogues == parseDialogue(rawScript, usersFields)
    IN  /\ dialogues' = parsedDialogues.dialogues
        /\ console' = console \o parsedDialogues.console
        /\ lastOp' = Op("parse", "")
        /\ UNCHANGED <<finalScript, rawScript, scriptData, usersFields,
                       formDialogues>>

getUserFromUsername(username) == findName(usersFields, username, 1)

\* addDialogue without the early return for an unknown user
addDialogue_noGuard(userName) ==
    LET user == getUserFromUsername(userName)
    IN  /\ dialogues' = Append(dialogues,
               [user |-> usersFields[IF user = 0 THEN 1 ELSE user],
                span |-> 0, content |-> ""])
        /\ lastOp' = Op("add", userName)
        /\ UNCHANGED <<finalScript, rawScript, scriptData, usersFields,
                       formDialogues, console>>

addDialogue(userName) ==
    LET user == getUserFromUsername(userName)
    IN  /\ IF user = 0
           THEN /\ console' = Append(console, "User " \o userName \o " not found")
                /\ UNCHANGED dialogues
           ELSE /\ dialogues' = Append(dialogues,
                       [user |-> usersFields[user], span |-> 0, content |-> ""])
                /\ UNCHANGED console
        /\ lastOp' = Op("add", userName)
        /\ UNCHANGED <<finalScript, rawScript, scriptData, usersFields,
                       formDialogues>>

\* "Generate dialogues"
generateDialogues ==
    /\ finalScript' = wholeScriptContent(scriptData, dialogues)
    /\ lastOp' = Op("generate", "")
    /\ UNCHANGED <<dialogues, rawScript, scriptData, usersFields,
                   formDialogues, console>>

Character(n, sp, cp) == [name |-> n, scriptPrefix |-> sp, contentPrefix |-> cp]

\* "New user": appendUser({ name: '', scriptPrefix: '', contentPrefix: '' })
appendUser ==
    /\ usersFields' = Append(usersFields, Character("", "", ""))
    /\ lastOp' = Op("appendUser", "")
    /\ UNCHANGED <<dialogues, finalScript, rawScript, scriptData,
                   formDialogues, console>>

\* the three registered inputs of roster row index, filled in
editUser(index, character) ==
    /\ index \in 1..Len(usersFields)
    /\ usersFields' = [usersFields EXCEPT ![index] = character]
    /\ lastOp' = Op("editUser", "")
    /\ UNCHANGED <<dialogues, finalScript, rawScript, scriptData,
                   formDialogues, console>>

----------------------------------------------------------------------------
(* Bounds and input sets *)

MaxUsers == 2
MaxDialogues == 2
MaxConsole == 2
MaxLines == 4
MaxRoster == 2
MaxList == 3

Alice == Character("Alice", "A", "Alice: ")
Ann   == Character("Ann", "a", "Ann: ")
Bob   == Character("Bob", "b", "Bob: ")
NoName == Character("", "", "")

Names == {"", "Alice", "Zed"}
UiTexts == {"A: Hello there", "C: x\nmore"}

SeqsUpTo(S, lo, hi) == UNION {[1..n -> S] : n \in lo..hi}

RECURSIVE join(_)
join(lines) ==
    IF Len(lines) = 1 THEN lines[1]
    ELSE lines[1] \o "\n" \o join(Tail(lines))

Lines == {"A: Hello there", "a:  1 ", "C: x", ""}
\* texts with Windows line ends, whose "\r" stays in the line after split
CrLfTexts == {"A: Hello there\r\na:  1 \r\n", "a:  1 \nA: hi\r", "A: hi\r"}
RawTexts == {join(ls) : ls \in SeqsUpTo(Lines, 1, MaxLines)} \cup CrLfTexts
Rosters == SeqsUpTo({Alice, Ann, Bob}, 1, MaxRoster)

Configs == [name : {"", "X", "S"}, initialCounter : {1, 2},
            initialSpan : {0, 10}]
Dialogs == [user : {Alice, Bob}, span : {0, 4, 8}, content : {"hi"}]
DialogLists == SeqsUpTo(Dialogs, 0, MaxList)

PipeRosters == {<<Alice>>, <<Ann, Alice>>, <<Bob, Alice>>}
PipeConfigs == {c \in Configs : c.initialCounter = 1 /\ c.initialSpan = 10
                                /\ c.name \in {"", "S"}}

----------------------------------------------------------------------------
(* Specifications *)

\* the component as constructed (App.tsx:61-72) and its handlers
Init ==
    /\ dialogues = <<>>
    /\ finalScript = ""
    /\ rawScript = ""
    /\ scriptData = [name |-> "", initialCounter |-> 1, initialSpan |-> 10]
    /\ usersFields = <<NoName>>
    /\ formDialogues = <<>>
    /\ console = <<>>
    /\ lastOp = Op("init", "")

Next ==
    \/ \E t \in UiTexts : setRawScript(t)
    \/ /\ Len(console) + Len(parseDialogue(rawScript, usersFields).console)
              <= MaxConsole
       /\ parseDialogueOnClick
    \/ /\ Len(usersFields) < MaxUsers
       /\ appendUser
    \/ \E i \in 1..MaxUsers, c \in {Alice, Bob} : editUser(i, c)
    \/ \E n \in Names :
          /\ Len(dialogues) < MaxDialogues
          /\ Len(console) < MaxConsole
          /\ addDialogue(n)
    \/ generateDialogues

Spec == Init /\ [][Next]_vars

\* parseDialogue as a function of the raw text and the roster
InitParse ==
    /\ rawScript \in RawTexts
    /\ usersFields \in Rosters
    /\ dialogues = <<>>
    /\ finalScript = ""
    /\ scriptData = [name |-> "", initialCounter |-> 1, initialSpan |-> 10]
    /\ formDialogues = <<>>
    /\ console = <<>>
    /\ lastOp = Op("init", "")

NextParse == lastOp.op = "init" /\ parseDialogueOnClick

SpecParse == InitParse /\ [][NextParse]_vars

\* generateDialogues as a function of the configuration and the list
InitGen ==
    /\ scriptData \in Configs
    /\ dialogues \in DialogLists
    /\ finalScript = ""
    /\ rawScript = ""
    /\ usersFields = <<Alice, Bob>>
    /\ formDialogues = <<>>
    /\ console = <<>>
    /\ lastOp = Op("init", "")

NextGen == lastOp.op = "init" /\ generateDialogues

SpecGen == InitGen /\ [][NextGen]_vars

\* addDialogue as a function of the roster, the list and the requested name
InitAdd ==
    /\ usersFields \in Rosters
    /\ dialogues \in DialogLists
    /\ finalScript = ""
    /\ rawScript = ""
    /\ scriptData = [name |-> "", initialCounter |-> 1, initialSpan |-> 10]
    /\ formDialogues = <<>>
    /\ console = <<>>
    /\ lastOp = Op("init", "")

NextAdd == lastOp.op = "init" /\ \E n \in Names : addDialogue(n)

SpecAdd == InitAdd /\ [][NextAdd]_vars

\* parse, then at most one manual addition, then generate, with the parse
\* result as the dialogue list (the second listing of the component)
InitPipe ==
    /\ rawScript \in RawTexts
    /\ usersFields \in PipeRosters
    /\ scriptData \in PipeConfigs
    /\ dialogues = <<>>
    /\ finalScript = ""
    /\ formDialogues = <<>>
    /\ console = <<>>
    /\ lastOp = Op("init", "")

NextPipe ==
    \/ lastOp.op = "init" /\ parseDialogueOnClick2
    \/ /\ lastOp.op = "parse"
       /\ \E i \in 1..Len(usersFields) : addDialogue(usersFields[i].name)
    \/ lastOp.op \in {"parse", "add"} /\ generateDialogues

SpecPipe == InitPipe /\ [][NextPipe]_vars

----------------------------------------------------------------------------
(* What the properties below are stated with *)

\* the sum of the spans of ds[1..n]
RECURSIVE SumSpans(_, _)
SumSpans(ds, n) == IF n = 0 THEN 0 ELSE SumSpans(ds, n - 1) + ds[n].span

\* the threshold of the i-th conditional statement; i = Len(ds) + 1 gives
\* the threshold of the closing statement
Threshold(sd, ds, i) == sd.initialSpan + SumSpans(ds, i - 1)

RECURSIVE Conditionals(_, _, _)
Conditionals(sd, ds, i) ==
    IF i > Len(ds) THEN ""
    ELSE getSingleDialog(sd, Threshold(sd, ds, i), ds[i])
             \o Conditionals(sd, ds, i + 1)

ExpectedScript(sd, ds) ==
    getScriptIncrementer(sd) \o Conditionals(sd, ds, 1)
        \o getScriptFinalStatement(sd, Threshold(sd, ds, Len(ds) + 1))

\* the j-th smallest element of a set of numbers
Nth(S, j) == CHOOSE i \in S : Cardinality({k \in S : k < i}) = j - 1

\* positions where a maximal run of alphabetic characters starts
RunStarts(s) ==
    {i \in 1..Len(s) :
        IsAlpha(Char(s, i)) /\ (i = 1 \/ ~IsAlpha(Char(s, i - 1)))}

SameLowered(a, b) == toLowerCase(a) = toLowerCase(b)

\* roster positions whose scriptPrefix equals the tag of the line, lower-cased
Candidates(users, line) ==
    {k \in 1..Len(users) : SameLowered(users[k].scriptPrefix, matchSpeaker(line))}

\* positions of the lines that match the speaker pattern
SpeakerIdx(lines) == {i \in 1..Len(lines) : lineMatches(lines[i])}

\* positions of the speaker lines whose tag some roster entry answers
ResolvedIdx(lines, users) ==
    {i \in SpeakerIdx(lines) : Candidates(users, lines[i]) # {}}

\* the non-speaker lines that follow line i immediately
Block(lines, i) ==
    {k \in (i + 1)..Len(lines) : \A m \in (i + 1)..k : ~lineMatches(lines[m])}

\* c followed by "\n" and the line, for each line position in S in order
RECURSIVE AppendLines(_, _, _)
AppendLines(c, lines, S) ==
    IF S = {} THEN c
    ELSE LET k == Nth(S, 1)
         IN  AppendLines(c \o "\n" \o lines[k], lines, S \ {k})

\* the messages of log that start with prefix
WithPrefix(log, prefix) ==
    SelectSeq(log, LAMBDA m : /\ Len(m) >= Len(prefix)
                              /\ SubSeq(m, 1, Len(prefix)) = prefix)

\* the text of lines with line i removed
TextWithout(lines, i) ==
    LET rest == [j \in 1..(Len(lines) - 1) |->
                    IF j < i THEN lines[j] ELSE lines[j + 1]]
    IN  IF rest = <<>> THEN "" ELSE join(rest)

----------------------------------------------------------------------------
(* Properties of the generator, under SpecGen *)

\* C1: generateDialogues emits the increment statement, then one conditional
\* statement per dialogue line in list order, the i-th gated on initialSpan
\* plus the spans of the lines before it, then the closing statement gated on
\* initialSpan plus the sum of all spans.
C1_Thresholds ==
    lastOp.op = "generate" => finalScript = ExpectedScript(scriptData, dialogues)

C1_Witness ==
    /\ lastOp.op = "generate"
    /\ Len(dialogues) = 3
    /\ dialogues[1].span = 4
    /\ dialogues[2].span = 8
    /\ scriptData.initialSpan = 10

\* C2: on an empty list generateDialogues emits the increment statement and
\* the closing statement only, the closing one gated on initialSpan; for the
\* configuration {X, 1, 10} the output is the string of the specification.
C2_EmptyList ==
    (lastOp.op = "generate" /\ dialogues = <<>>) =>
        /\ finalScript =
               "scoreboard players add @s " \o scriptData.name \o " "
                   \o ToString(scriptData.initialCounter)
                   \o "\nexecute if score @s " \o scriptData.name
                   \o " matches " \o ToString(scriptData.initialSpan)
                   \o ".. run scoreboard players set @s " \o scriptData.name
                   \o " -1\n"
        /\ scriptData = [name |-> "X", initialCounter |-> 1, initialSpan |-> 10]
               => finalScript =
                      "scoreboard players add @s X 1\nexecute if score @s X matches 10.. run scoreboard players set @s X -1\n"

C2_Witness ==
    /\ lastOp.op = "generate"
    /\ dialogues = <<>>
    /\ scriptData = [name |-> "X", initialCounter |-> 1, initialSpan |-> 10]
    /\ finalScript # ""

----------------------------------------------------------------------------
(* Properties of the parser, under SpecParse *)

\* C4: the DialogueLine of every resolved speaker line has span 4 times the
\* number of maximal alphabetic runs of the whole trimmed line, whatever
\* continuation lines were appended to it afterwards.
C4_SpanOfLine ==
    lastOp.op = "parse" =>
        LET lines    == split(rawScript)
            resolved == ResolvedIdx(lines, usersFields)
        IN  /\ Len(formDialogues) = Cardinality(resolved)
            /\ \A j \in 1..Len(formDialogues) :
                   formDialogues[j].span =
                       4 * Cardinality(RunStarts(trim(lines[Nth(resolved, j)])))

C4_Witness ==
    /\ lastOp.op = "parse"
    /\ LET lines    == split(rawScript)
           resolved == ResolvedIdx(lines, usersFields)
       IN  \E j \in 1..Len(formDialogues) :
              /\ formDialogues[j].span = 12
              /\ Block(lines, Nth(resolved, j)) # {}
              /\ formDialogues[j].content # matchContent(lines[Nth(resolved, j)])

C7_Resolution ==
    lastOp.op = "parse" =>
        LET lines      == split(rawScript)
            resolved   == ResolvedIdx(lines, usersFields)
            unresolved == SpeakerIdx(lines) \ resolved
        IN  /\ Len(formDialogues) = Cardinality(resolved)
            /\ \A j \in 1..Len(formDialogues) :
                   LET k == Nth(Candidates(usersFields, lines[Nth(resolved, j)]), 1)
                   IN  formDialogues[j].user = usersFields[k]
            /\ WithPrefix(console, "Unknown speaker: ") =
                   [j \in 1..Cardinality(unresolved) |->
                       "Unknown speaker: "
                           \o toLowerCase(matchSpeaker(lines[Nth(unresolved, j)]))]
            /\ \A i \in unresolved :
                   parseDialogue(TextWithout(lines, i), usersFields).dialogues
                       = formDialogues

C7_Witness ==
    /\ lastOp.op = "parse"
    /\ LET lines      == split(rawScript)
           resolved   == ResolvedIdx(lines, usersFields)
           unresolved == SpeakerIdx(lines) \ resolved
       IN  \E i \in resolved :
              /\ Cardinality(Candidates(usersFields, lines[i])) = 2
              /\ \E k \in Candidates(usersFields, lines[i]) :
                    usersFields[k].scriptPrefix # matchSpeaker(lines[i])
              /\ \E u \in unresolved : u < i

\* C8: every non-speaker line before the first produced DialogueLine is
\* dropped with one diagnostic; when no line is a speaker line the result is
\* empty and there is exactly one diagnostic per line.
C8_Orphans ==
    lastOp.op = "parse" =>
        LET lines    == split(rawScript)
            speakers == SpeakerIdx(lines)
            resolved == ResolvedIdx(lines, usersFields)
            orphans  == {i \in (1..Len(lines)) \ speakers :
                            \A m \in 1..i : m \notin resolved}
        IN  /\ WithPrefix(console, "Invalid dialogue line: ") =
                   [j \in 1..Cardinality(orphans) |->
                       "Invalid dialogue line: " \o lines[Nth(orphans, j)]]
            /\ speakers = {} =>
                   /\ formDialogues = <<>>
                   /\ console = [i \in 1..Len(lines) |->
                                    "Invalid dialogue line: " \o lines[i]]
            /\ Len(console) =
                   Cardinality(orphans) + Cardinality(speakers \ resolved)

C8_Witness ==
    /\ lastOp.op = "parse"
    /\ LET lines == split(rawScript)
       IN  /\ SpeakerIdx(lines) = {}
           /\ Len(lines) = 3
           /\ Len(console) = 3
           /\ \E i \in 1..3 : lines[i] = ""

----------------------------------------------------------------------------
(* Properties of parse followed by generate, under SpecPipe *)

ExampleInput ==
    /\ usersFields = <<Character("Alice", "A", "Alice: ")>>
    /\ rawScript = "A: Hello there"
    /\ scriptData = [name |-> "S", initialCounter |-> 1, initialSpan |-> 10]

\* C5 as stated: the example of the specification parses to one DialogueLine
\* of span 8, and the closing statement is gated on 10 + 8.
C5_Original ==
    /\ (ExampleInput /\ lastOp.op = "parse") =>
           dialogues = <<[user |-> Character("Alice", "A", "Alice: "),
                          span |-> 8, content |-> "Hello there"]>>
    /\ (ExampleInput /\ lastOp.op = "generate" /\ Len(dialogues) = 1) =>
           finalScript =
               "scoreboard players add @s S 1\n"
               \o "execute if score @s S matches 10 run tellraw @a [Alice: , {\"text\":\"Hello there\", \"italic\": true, \"color\":\"gray\", \"bold\": \"false\"}]\n"
               \o "execute if score @s S matches 18.. run scoreboard players set @s S -1\n"

\* C5 amended: the example parses to one DialogueLine of span 12 (the runs
\* A, Hello, there), and generate yields the increment statement, one
\* tellraw statement gated on 10 and the closing statement gated on 22.
C5_Example ==
    /\ (ExampleInput /\ lastOp.op = "parse") =>
           dialogues = <<[user |-> Character("Alice", "A", "Alice: "),
                          span |-> 12, content |-> "Hello there"]>>
    /\ (ExampleInput /\ lastOp.op = "generate" /\ Len(dialogues) = 1) =>
           finalScript =
               "scoreboard players add @s S 1\n"
               \o "execute if score @s S matches 10 run tellraw @a [Alice: , {\"text\":\"Hello there\", \"italic\": true, \"color\":\"gray\", \"bold\": \"false\"}]\n"
               \o "execute if score @s S matches 22.. run scoreboard players set @s S -1\n"

C5_Witness ==
    /\ ExampleInput
    /\ lastOp.op = "generate"
    /\ Len(dialogues) = 1
    /\ dialogues[1].content = "Hello there"

\* C10: every span returned by parse is a multiple of 4 and at least 4, so
\* the thresholds generate emits for a parse result are strictly increasing
\* up to and including the closing one; with a line of span 0 appended by
\* addDialogue the last conditional statement and the closing statement are
\* gated on the same value.
C10_Increasing ==
    LET n     == Len(dialogues)
        added == n - Cardinality(ResolvedIdx(split(rawScript), usersFields))
    IN  /\ lastOp.op = "parse" =>
               \A j \in 1..n : dialogues[j].span % 4 = 0 /\ dialogues[j].span >= 4
        /\ (lastOp.op = "generate" /\ added = 0) =>
               /\ finalScript = ExpectedScript(scriptData, dialogues)
               /\ \A i, j \in 1..(n + 1) :
                      i < j => Threshold(scriptData, dialogues, i)
                                   < Threshold(scriptData, dialogues, j)
        /\ (lastOp.op = "generate" /\ added = 1) =>
               /\ finalScript = ExpectedScript(scriptData, dialogues)
               /\ Threshold(scriptData, dialogues, n)
                      = Threshold(scriptData, dialogues, n + 1)

C10_Witness ==
    /\ lastOp.op = "generate"
    /\ Len(dialogues) = 3
    /\ Len(dialogues) = Cardinality(ResolvedIdx(split(rawScript), usersFields))
    /\ dialogues[2].span = 4

----------------------------------------------------------------------------
(* Properties of the handlers *)

\* C9, under SpecAdd: addDialogue with a name no roster entry has changes
\* nothing but the console, which gets one diagnostic; with a name of the
\* roster it appends one DialogueLine of that character with span 0 and empty
\* content and leaves the lines before it as they were.
C9_AddDialogue ==
    [][lastOp'.op = "add" =>
          LET known == {k \in 1..Len(usersFields) :
                           usersFields[k].name = lastOp'.arg}
              n     == Len(dialogues)
          IN  IF known = {}
              THEN /\ dialogues' = dialogues
                   /\ usersFields' = usersFields
                   /\ finalScript' = finalScript
                   /\ Len(console') = Len(console) + 1
                   /\ SubSeq(console', 1, Len(console)) = console
              ELSE /\ Len(dialogues') = n + 1
                   /\ SubSeq(dialogues', 1, n) = dialogues
                   /\ dialogues'[n + 1].span = 0
                   /\ dialogues'[n + 1].content = ""
                   /\ dialogues'[n + 1].user \in {usersFields[k] : k \in known}
                   /\ console' = console
                   /\ usersFields' = usersFields]_vars

C9_Witness ==
    /\ lastOp.op = "add"
    /\ \A k \in 1..Len(usersFields) : usersFields[k].name # lastOp.arg
    /\ console = <<"User Zed not found">>
    /\ Len(dialogues) = 2

\* C3, under Spec: when "Generate dialogues" runs right after "Import
\* dialogues", the final script holds one conditional statement per
\* DialogueLine of that parse, in parse order, and none for lines held before.
C3_ParseFeedsGenerate ==
    [][(lastOp.op = "parse" /\ lastOp'.op = "generate") =>
          finalScript' =
              ExpectedScript(scriptData,
                             parseDialogue(rawScript, usersFields).dialogues)]_vars

====
